---- MODULE Spec2Model ----
(***************************************************************************)
(* Model of src/caffe/layers/softmax_layer.cu: the six channel kernels,    *)
(* SoftmaxLayer::Forward_gpu (CUDA and GREENTEA branches) and              *)
(* SoftmaxLayer::Backward_gpu, running on a device that executes the       *)
(* stages issued to one stream in issue order while the host runs ahead.   *)
(*                                                                         *)
(* Element values are terms: <<"num", k>> is a number (an integer stands   *)
(* for a floating-point value), and exp, a sum of non-numbers and a        *)
(* quotient are kept symbolic (<<"exp", v>>, <<"add", a, b>>,              *)
(* <<"div", a, b>>), so exp is an abstract function.                       *)
(***************************************************************************)
EXTENDS Integers, Sequences, FiniteSets, TLC

\* FLT_MAX, the constant of the max kernel's accumulator (an integer stand-in).
FltMax == 1
\* The largest finite double: strictly larger than FLT_MAX.
DblMax == FltMax + 1

\* Bounds of the model.
MaxNum == 2
MaxChannels == 2
MaxSpatial == 2
MaxCount == 4
MaxSchedCount == 8
MaxThreads == 2

VARIABLES call, backend, dtype, inplace, nthreads,
          num, channels, spatial_dim,
          mem, in0, stages, pc, waiting, returned

vars == <<call, backend, dtype, inplace, nthreads, num, channels, spatial_dim,
          mem, in0, stages, pc, waiting, returned>>

shape == <<call, backend, dtype, inplace, nthreads, num, channels, spatial_dim, in0>>

----------------------------------------------------------------------------
\* Values of the element type and the arithmetic the kernels use.

Num(k) == <<"num", k>>
Undef == <<"undef">>
IsNum(v) == v[1] = "num"

\* max(a, b) of the device library: b when a < b, else a.
MaxV(a, b) == IF IsNum(a) /\ IsNum(b) THEN (IF a[2] < b[2] THEN b ELSE a)
              ELSE <<"max", a, b>>
SubV(a, b) == IF IsNum(a) /\ IsNum(b) THEN Num(a[2] - b[2]) ELSE <<"sub", a, b>>
\* 0 + b is b; a sum of numbers is a number; any other sum stays a term.
AddV(a, b) == IF IsNum(a) /\ IsNum(b) THEN Num(a[2] + b[2])
              ELSE IF IsNum(a) /\ a[2] = 0 THEN b ELSE <<"add", a, b>>
MulV(a, b) == IF IsNum(a) /\ IsNum(b) THEN Num(a[2] * b[2]) ELSE <<"mul", a, b>>
DivV(a, b) == <<"div", a, b>>
ExpV(a) == <<"exp", a>>

\* The finite values of the element type Dtype (INSTANTIATE_LAYER_GPU_FUNCS:
\* float and double).
DtypeVals(d) == IF d = "float" THEN (-FltMax)..FltMax ELSE (-DblMax)..DblMax
\* The input values enumerated. No kernel treats a double above FLT_MAX
\* differently from FLT_MAX itself, so of the doubles outside float's range
\* only the negative ones are enumerated.
InputVals(d) == {v \in DtypeVals(d) : v <= FltMax}
\* A double tensor whose elements all lie in float's range runs as the float
\* tensor does; the double inputs enumerated have an element outside it.
InputTensors(d, n) ==
  {x \in [1..n -> {Num(v) : v \in InputVals(d)}] :
     d = "double" => \E i \in 1..n : x[i][2] \notin DtypeVals("float")}

----------------------------------------------------------------------------
\* Buffers are sequences; element i (from 0) of buffer b is b[i + 1].

count == num * channels * spatial_dim
groups == num * spatial_dim

\* A read of element off of buffer name b; outside the buffer the value is undefined.
Rd(m, b, off) == IF off >= 0 /\ off < Len(m[b]) THEN m[b][off + 1] ELSE Undef
Wr(m, b, off, v) == IF off >= 0 /\ off < Len(m[b])
                    THEN [m EXCEPT ![b] = [@ EXCEPT ![off + 1] = v]]
                    ELSE m

\* The buffer behind each pointer of Forward_gpu / Backward_gpu. A layer run in
\* place has bottom[0] == top[0], so the two data (and the two diff) pointers
\* name one buffer.
BottomData == IF inplace THEN "top_data" ELSE "bottom_data"
TopData == "top_data"
ScaleData == "scale_data"
TopDiff == "top_diff"
BottomDiff == IF inplace THEN "top_diff" ELSE "bottom_diff"

----------------------------------------------------------------------------
\* Index arithmetic of the kernels (C integer division and remainder on
\* non-negative operands).

\* kernel_channel_max / _sum / _dot: int n = index / spatial_dim;
ReduceN(index, sp) == index \div sp
\* kernel_channel_max / _sum / _dot: int s = index % spatial_dim;
ReduceS(index, sp) == index % sp
\* data[(n * channels + c) * spatial_dim + s]
DataIdx(n, c, s, ch, sp) == (n * ch + c) * sp + s
\* (mutant) the batch index without the division by spatial_dim.
BroadcastNNoSpatial(index, ch, sp) == index \div ch
\* kernel_channel_subtract / _div: int n = index / channels / spatial_dim;
BroadcastN(index, ch, sp) == (index \div ch) \div sp
\* kernel_channel_subtract / _div: int s = index % spatial_dim;
BroadcastS(index, sp) == index % sp
\* channel_max[n * spatial_dim + s], channel_sum[n * spatial_dim + s]
ScalarIdx(index, ch, sp) == BroadcastN(index, ch, sp) * sp + BroadcastS(index, sp)

\* Dtype maxval = -FLT_MAX; (the same constant for every Dtype)
MaxInit(d) == Num(-FltMax)

RECURSIVE MaxLoop(_, _, _, _, _, _, _, _)
\* for (c = 0; c < channels; ++c) maxval = max(data[...], maxval);
MaxLoop(m, data, n, s, ch, sp, c, maxval) ==
  IF c >= ch THEN maxval
  ELSE MaxLoop(m, data, n, s, ch, sp, c + 1,
               MaxV(Rd(m, data, DataIdx(n, c, s, ch, sp)), maxval))

RECURSIVE SumLoop(_, _, _, _, _, _, _, _)
\* for (c = 0; c < channels; ++c) sum += data[...];
SumLoop(m, data, n, s, ch, sp, c, sum) ==
  IF c >= ch THEN sum
  ELSE SumLoop(m, data, n, s, ch, sp, c + 1,
               AddV(sum, Rd(m, data, DataIdx(n, c, s, ch, sp))))

RECURSIVE DotLoopNoAcc(_, _, _, _, _, _, _, _, _)
\* (mutant) dot = ... in place of dot += ...
DotLoopNoAcc(m, d1, d2, n, s, ch, sp, c, dot) ==
  IF c >= ch THEN dot
  ELSE DotLoopNoAcc(m, d1, d2, n, s, ch, sp, c + 1,
                    MulV(Rd(m, d1, DataIdx(n, c, s, ch, sp)),
                         Rd(m, d2, DataIdx(n, c, s, ch, sp))))

RECURSIVE DotLoop(_, _, _, _, _, _, _, _, _)
\* for (c = 0; c < channels; ++c) dot += data_1[...] * data_2[...];
DotLoop(m, d1, d2, n, s, ch, sp, c, dot) ==
  IF c >= ch THEN dot
  ELSE DotLoop(m, d1, d2, n, s, ch, sp, c + 1,
               AddV(dot, MulV(Rd(m, d1, DataIdx(n, c, s, ch, sp)),
                              Rd(m, d2, DataIdx(n, c, s, ch, sp)))))

\* (mutant) out[n] in place of out[index].
WriteLocGroup(st, index) == index \div st.sp

\* The location each kernel body writes for its loop index:
\* out[index], data[index], channel_sum[index], channel_dot[index].
WriteLoc(st, index) == index

\* The library primitives the entry points call: caffe_copy / greentea_copy
\* (Y[i] = X[i]) and caffe_gpu_mul (y[i] = a[i] * b[i]).
PrimitiveValue(m, st, index) ==
  IF st.kern = "copy" THEN Rd(m, st.src, index)
  ELSE MulV(Rd(m, st.src, index), Rd(m, st.src2, index))

\* The value one iteration of the kernel body writes at WriteLoc.
KernelValue(m, st, index) ==
  CASE st.kern = "kernel_channel_max" ->
         MaxLoop(m, st.src, ReduceN(index, st.sp), ReduceS(index, st.sp),
                 st.ch, st.sp, 0, MaxInit(dtype))
    [] st.kern = "kernel_channel_subtract" ->
         SubV(Rd(m, st.dst, index), Rd(m, st.src, ScalarIdx(index, st.ch, st.sp)))
    [] st.kern = "kernel_exp" ->
         ExpV(Rd(m, st.src, index))
    [] st.kern = "kernel_channel_sum" ->
         SumLoop(m, st.src, ReduceN(index, st.sp), ReduceS(index, st.sp),
                 st.ch, st.sp, 0, Num(0))
    [] st.kern = "kernel_channel_div" ->
         DivV(Rd(m, st.dst, index), Rd(m, st.src, ScalarIdx(index, st.ch, st.sp)))
    [] st.kern = "kernel_channel_dot" ->
         DotLoop(m, st.src, st.src2, ReduceN(index, st.sp), ReduceS(index, st.sp),
                 st.ch, st.sp, 0, Num(0))
    [] OTHER -> PrimitiveValue(m, st, index)

IsReduce(kern) == kern \in {"kernel_channel_max", "kernel_channel_sum", "kernel_channel_dot"}
IsBroadcast(kern) == kern \in {"kernel_channel_subtract", "kernel_channel_div"}

\* The offsets one iteration reads besides data[index]: the channel elements
\* of its group (reductions) or the scalar of its group (broadcasts).
KernelReads(st, index) ==
  IF IsReduce(st.kern)
  THEN {DataIdx(ReduceN(index, st.sp), c, ReduceS(index, st.sp), st.ch, st.sp) :
          c \in 0..(st.ch - 1)}
  ELSE IF IsBroadcast(st.kern) THEN {ScalarIdx(index, st.ch, st.sp)}
  ELSE {index}

----------------------------------------------------------------------------
\* Launch geometry.

\* CAFFE_GET_BLOCKS(N) blocks of CAFFE_CUDA_NUM_THREADS threads.
CaffeGetBlocks(N) == (N + nthreads - 1) \div nthreads
\* The number of workers of a stage: the CUDA grid, the OpenCL global work
\* size, or the single copy engine of a device-to-device copy.
GridSize(op) ==
  CASE op.kern = "copy" -> 1
    [] op.api = "cuda" -> CaffeGetBlocks(op.bound) * nthreads
    [] op.api = "ocl" -> nthreads

\* CUDA_KERNEL_LOOP(i, n): for (i = global thread id; i < n; i += grid size)
LoopFirst(t) == t
LoopGuard(i, n) == i < n
LoopNext(i, T) == i + T

\* (mutant) each launch on a stream of its own.
LaunchStreamPerKernel(k) == k

\* Every launch names no stream: all stages go to the one default stream
\* (CUDA) or the context's one in-order queue (OpenCL).
LaunchStream(k) == 0

----------------------------------------------------------------------------
\* The host programs: what each entry point issues, in order.

Op(api, kern, bound, src, src2, dst, fin) ==
  [api |-> api, kern |-> kern, bound |-> bound, n |-> num, ch |-> channels,
   sp |-> spatial_dim, src |-> src, src2 |-> src2, dst |-> dst, finish |-> fin]

\* Forward_gpu, BACKEND_CUDA branch.
CudaForward ==
  << Op("cuda", "copy", count, BottomData, "", TopData, FALSE),
     Op("cuda", "kernel_channel_max", num * spatial_dim, TopData, "", ScaleData, FALSE),
     Op("cuda", "kernel_channel_subtract", count, ScaleData, "", TopData, FALSE),
     Op("cuda", "kernel_exp", num * channels * spatial_dim, TopData, "", TopData, FALSE),
     Op("cuda", "kernel_channel_sum", num * spatial_dim, TopData, "", ScaleData, FALSE),
     Op("cuda", "kernel_channel_div", count, ScaleData, "", TopData, FALSE) >>

\* (mutant) the GREENTEA branch without the finish() after kernel_channel_max.
GreenteaForwardNoFinish ==
  << Op("ocl", "copy", count, BottomData, "", TopData, FALSE),
     Op("ocl", "kernel_channel_max", num * spatial_dim, TopData, "", ScaleData, FALSE),
     Op("ocl", "kernel_channel_subtract", count, ScaleData, "", TopData, TRUE),
     Op("ocl", "kernel_exp", num * channels * spatial_dim, TopData, "", TopData, TRUE),
     Op("ocl", "kernel_channel_sum", num * spatial_dim, TopData, "", ScaleData, TRUE),
     Op("ocl", "kernel_channel_div", count, ScaleData, "", TopData, TRUE) >>

\* (mutant) the GREENTEA branch passing kernel_channel_max its shape
\* arguments as (num, spatial_dim, channels).
GreenteaForwardSwapped ==
  << Op("ocl", "copy", count, BottomData, "", TopData, FALSE),
     [Op("ocl", "kernel_channel_max", num * spatial_dim, TopData, "", ScaleData, TRUE)
        EXCEPT !.ch = spatial_dim, !.sp = channels],
     Op("ocl", "kernel_channel_subtract", count, ScaleData, "", TopData, TRUE),
     Op("ocl", "kernel_exp", num * channels * spatial_dim, TopData, "", TopData, TRUE),
     Op("ocl", "kernel_channel_sum", num * spatial_dim, TopData, "", ScaleData, TRUE),
     Op("ocl", "kernel_channel_div", count, ScaleData, "", TopData, TRUE) >>

\* Forward_gpu, GREENTEA branch: each kernel is enqueued and the queue finished.
GreenteaForward ==
  << Op("ocl", "copy", count, BottomData, "", TopData, FALSE),
     Op("ocl", "kernel_channel_max", num * spatial_dim, TopData, "", ScaleData, TRUE),
     Op("ocl", "kernel_channel_subtract", count, ScaleData, "", TopData, TRUE),
     Op("ocl", "kernel_exp", num * channels * spatial_dim, TopData, "", TopData, TRUE),
     Op("ocl", "kernel_channel_sum", num * spatial_dim, TopData, "", ScaleData, TRUE),
     Op("ocl", "kernel_channel_div", count, ScaleData, "", TopData, TRUE) >>

\* Backward_gpu (one body, CUDA launches, whatever the backend).
BackwardProgram ==
  << Op("cuda", "copy", count, TopDiff, "", BottomDiff, FALSE),
     Op("cuda", "kernel_channel_dot", num * spatial_dim, TopDiff, TopData, ScaleData, FALSE),
     Op("cuda", "kernel_channel_subtract", count, ScaleData, "", BottomDiff, FALSE),
     Op("cuda", "mul", count, BottomDiff, TopData, BottomDiff, FALSE) >>

Program ==
  IF call = "forward"
  THEN (IF backend = "CUDA" THEN CudaForward ELSE GreenteaForward)
  ELSE BackwardProgram

----------------------------------------------------------------------------
\* The device: stages of one stream run in issue order; the workers of the
\* running stage run in any order.

NewStage(op, k) ==
  [kern |-> op.kern, bound |-> op.bound, n |-> op.n, ch |-> op.ch, sp |-> op.sp,
   src |-> op.src, src2 |-> op.src2, dst |-> op.dst,
   stream |-> LaunchStream(k),
   idx |-> [t \in 0..(GridSize(op) - 1) |-> LoopFirst(t)],
   iters |-> 0,
   log |-> {}]

Finished(st) == \A t \in DOMAIN st.idx : ~LoopGuard(st.idx[t], st.bound)
Started(st) == st.log # {}
CanRun(k) == \A j \in 1..(k - 1) :
               stages[j].stream = stages[k].stream => Finished(stages[j])
DeviceIdle == \A k \in 1..Len(stages) : Finished(stages[k])

Unused == << >>
Fill(n, v) == [i \in 1..n |-> v]

GradVals == {-1, 1}
OutVals == {1, 2}
Shapes == {s \in (1..MaxNum) \X (1..MaxChannels) \X (1..MaxSpatial) :
             s[1] * s[2] * s[3] <= MaxCount}

\* The buffers of a Forward_gpu call at its start: bottom[0]'s data is the
\* input; top[0]'s data and the scratch buffer hold nothing the call may use.
ForwardMem0 == [bottom_data |-> in0.data, top_data |-> Fill(count, Undef),
                scale_data |-> Fill(groups, Undef),
                top_diff |-> Unused, bottom_diff |-> Unused]
\* The buffers of a Backward_gpu call at its start: top[0]'s data and diff
\* are the forward output and its gradient.
BackwardMem0 == [bottom_data |-> Unused, top_data |-> in0.data,
                 scale_data |-> Fill(groups, Undef),
                 top_diff |-> in0.diff,
                 bottom_diff |-> IF inplace THEN Unused ELSE Fill(count, Undef)]

\* The tensors of a Backward_gpu call.
OutTensors(n) == [1..n -> {Num(v) : v \in OutVals}]
GradTensors(n) == [1..n -> {Num(v) : v \in GradVals}]

\* One tensor of each kind per size, for the scheduling of a call.
SchedInput(d, n) == {[i \in 1..n |-> Num(IF i % 2 = 1 THEN -FltMax ELSE 0)]}
SchedOutput(n) == {[i \in 1..n |-> Num(1 + (i % 2))]}
SchedGradient(n) == {[i \in 1..n |-> Num(IF i % 2 = 1 THEN 1 ELSE -1)]}

\* The start of a Forward_gpu call over one of the given shapes: bottom[0]
\* holds one of the inputs (the one scheduling input when sched), nothing
\* has been issued.
ForwardCall(shapes, dtypes, sched) ==
  /\ call = "forward"
  /\ backend \in {"CUDA", "GREENTEA"}
  /\ dtype \in dtypes
  /\ inplace = FALSE
  /\ nthreads \in 1..MaxThreads
  /\ \E s \in shapes : num = s[1] /\ channels = s[2] /\ spatial_dim = s[3]
  /\ \E x \in (IF sched THEN SchedInput(dtype, count) ELSE InputTensors(dtype, count)) :
       /\ in0 = [data |-> x, diff |-> Unused]
       /\ mem = ForwardMem0
  /\ stages = << >>
  /\ pc = 1
  /\ waiting = FALSE
  /\ returned = FALSE

\* The start of a Backward_gpu call: top[0] holds the forward output and its
\* gradient; the layer may run in place. Backward_gpu reads neither the
\* backend nor anything that depends on Dtype, so one value of each is
\* enumerated.
BackwardCall(shapes, sched) ==
  /\ call = "backward"
  /\ backend = "CUDA"
  /\ dtype = "float"
  /\ inplace \in BOOLEAN
  /\ nthreads \in 1..MaxThreads
  /\ \E s \in shapes : num = s[1] /\ channels = s[2] /\ spatial_dim = s[3]
  /\ \E y \in (IF sched THEN SchedOutput(count) ELSE OutTensors(count)),
        g \in (IF sched THEN SchedGradient(count) ELSE GradTensors(count)) :
       /\ in0 = [data |-> y, diff |-> g]
       /\ mem = BackwardMem0
  /\ stages = << >>
  /\ pc = 1
  /\ waiting = FALSE
  /\ returned = FALSE

\* Every input of every shape of at most MaxCount elements.
InitForward == ForwardCall(Shapes, {"float", "double"}, FALSE)
InitBackward == BackwardCall(Shapes, FALSE)

\* No kernel's indices, launch or synchronization depend on the data: for
\* the scheduling of a call one tensor per shape is enumerated, over the
\* shapes of at most MaxSchedCount elements.
SchedShapes == {s \in (1..MaxNum) \X (1..MaxChannels) \X (1..MaxSpatial) :
                  s[1] * s[2] * s[3] <= MaxSchedCount}
InitSched ==
  \/ ForwardCall(SchedShapes, {"float"}, TRUE)
  \/ BackwardCall(SchedShapes, TRUE)

\* The host issues the next copy or kernel launch of the entry point; a
\* GREENTEA kernel launch is followed by ctx.get_queue().finish().
HostIssue ==
  /\ ~returned /\ ~waiting /\ pc <= Len(Program)
  /\ stages' = Append(stages, NewStage(Program[pc], Len(stages) + 1))
  /\ waiting' = Program[pc].finish
  /\ pc' = pc + 1
  /\ UNCHANGED <<shape, mem, returned>>

\* ctx.get_queue().finish() returns once everything enqueued has completed.
HostFinish ==
  /\ waiting /\ DeviceIdle
  /\ waiting' = FALSE
  /\ UNCHANGED <<shape, mem, stages, pc, returned>>

\* The entry point returns after its last statement.
HostReturn ==
  /\ ~returned /\ ~waiting /\ pc > Len(Program)
  /\ returned' = TRUE
  /\ UNCHANGED <<shape, mem, stages, pc, waiting>>

\* Worker t of stage k runs one iteration of its kernel loop.
Worker(k, t) ==
  LET st == stages[k]
      i == st.idx[t]
  IN /\ CanRun(k)
     /\ LoopGuard(i, st.bound)
     /\ mem' = Wr(mem, st.dst, WriteLoc(st, i), KernelValue(mem, st, i))
     /\ stages' = [stages EXCEPT ![k] =
          [st EXCEPT !.idx = [@ EXCEPT ![t] = LoopNext(i, Cardinality(DOMAIN st.idx))],
                     !.iters = @ + 1,
                     !.log = @ \cup {[t |-> t, index |-> i, loc |-> WriteLoc(st, i),
                                      reads |-> KernelReads(st, i)]}]]
     /\ UNCHANGED <<shape, pc, waiting, returned>>

Device == \E k \in 1..Len(stages) : \E t \in DOMAIN stages[k].idx : Worker(k, t)

Next == HostIssue \/ HostFinish \/ HostReturn \/ Device
NextBackward == HostIssue \/ HostReturn \/ Device

\* Forward_gpu on either backend.
Spec == InitForward /\ [][Next]_vars
\* Backward_gpu.
SpecBackward == InitBackward /\ [][NextBackward]_vars
\* Either entry point, one tensor per shape.
SpecAll == InitSched /\ [][Next]_vars

----------------------------------------------------------------------------
\* What the claims speak of.

\* The call has returned and the device has run everything it issued.
Quiescent == returned /\ DeviceIdle
StageIds(kern) == {k \in 1..Len(stages) : stages[k].kern = kern}
Triples == (0..(num - 1)) \X (0..(channels - 1)) \X (0..(spatial_dim - 1))
\* Element (n, c, s) of a tensor in the layout (n * channels + c) * spatial_dim + s.
Elem(buf, n, c, s) == buf[DataIdx(n, c, s, channels, spatial_dim) + 1]

\* The input as it was when the call started, as integers.
In(n, c, s) == Elem(in0.data, n, c, s)[2]
GroupMax(n, s) == CHOOSE m \in {In(n, c, s) : c \in 0..(channels - 1)} :
                    \A c \in 0..(channels - 1) : In(n, c, s) <= m
Shifted(n, c, s) == Num(In(n, c, s) - GroupMax(n, s))
RECURSIVE ExpSum(_, _, _)
\* exp(x[n,0,s] - M) + ... + exp(x[n,c,s] - M), summed in channel order.
ExpSum(n, s, c) == IF c = 0 THEN ExpV(Shifted(n, 0, s))
                   ELSE AddV(ExpSum(n, s, c - 1), ExpV(Shifted(n, c, s)))
Softmax(n, c, s) == DivV(ExpV(Shifted(n, c, s)), ExpSum(n, s, channels - 1))

\* C1: after Forward_gpu has completed, every output element (n, c, s) equals
\* exp(input[n,c,s] - M) / S with M the channel maximum of the group (n, s)
\* and S the channel sum of exp(input[n,c',s] - M).
C1_ForwardIsSoftmax ==
  (call = "forward" /\ Quiescent) =>
    \A x \in Triples : Elem(mem[TopData], x[1], x[2], x[3]) = Softmax(x[1], x[2], x[3])

\* The gradient and the output as they were when the call started.
Grad(n, c, s) == Elem(in0.diff, n, c, s)[2]
Out(n, c, s) == Elem(in0.data, n, c, s)[2]
RECURSIVE GroupDot(_, _, _)
GroupDot(n, s, c) == IF c < 0 THEN 0
                     ELSE GroupDot(n, s, c - 1) + Grad(n, c, s) * Out(n, c, s)

\* C2: after Backward_gpu has completed, every input-gradient element (n, c, s)
\* equals output[n,c,s] * (grad_output[n,c,s] - D), D the channel sum of
\* grad_output * output of the group, for the values at the start of the call.
C2_BackwardIsJacobianProduct ==
  (call = "backward" /\ Quiescent) =>
    \A x \in Triples :
      Elem(mem[BottomDiff], x[1], x[2], x[3]) =
        Num(Out(x[1], x[2], x[3]) *
            (Grad(x[1], x[2], x[3]) - GroupDot(x[1], x[3], channels - 1)))

\* A completed in-place Backward_gpu over groups of two channels whose result
\* differs from the gradient it overwrote.
C2_Witness ==
  /\ call = "backward" /\ Quiescent /\ inplace /\ channels = 2 /\ spatial_dim = 2
  /\ mem[BottomDiff] # in0.diff

\* C3: no worker of a stage has run while a worker of an earlier stage of the
\* same call still has an index to process.
C3_StagesInOrder ==
  \A k \in 1..Len(stages) : \A j \in 1..(k - 1) :
    Started(stages[k]) => Finished(stages[j])

\* The host has issued all six forward stages while the broadcast subtract is
\* still running behind the finished channel max.
C3_Witness ==
  /\ call = "forward" /\ Len(stages) = 6
  /\ Started(stages[3]) /\ ~Finished(stages[3])

\* C4 (as claimed): when the entry point has returned, every stage it issued
\* has completed.
C4_ReturnedImpliesDone == returned => DeviceIdle

\* C4 (amended): at return every stage of the entry point has been issued; on
\* the GREENTEA branch each kernel has completed whenever the host is past
\* its finish(), so at return every stage has completed.
C4_ReturnedIssuedGreenteaDone ==
  /\ returned => Len(stages) = Len(Program)
  /\ (call = "forward" /\ backend = "GREENTEA" /\ ~waiting) =>
       \A k \in 2..Len(stages) : Finished(stages[k])
  /\ (call = "forward" /\ backend = "GREENTEA" /\ returned) => DeviceIdle

\* Forward_gpu has returned on the GREENTEA backend with all six stages run.
C4_Witness ==
  /\ call = "forward" /\ backend = "GREENTEA" /\ returned
  /\ Len(stages) = 6 /\ stages[6].iters = count

\* C5: within a stage no two iterations write the same location, no index is
\* processed twice, every processed index is below the bound, the bound is
\* the stage's index space, and a finished stage has processed every index.
C5_StagePartition ==
  \A k \in 1..Len(stages) :
    LET st == stages[k] IN
      /\ \A e1 \in st.log : \A e2 \in st.log :
           (e1.loc = e2.loc \/ e1.index = e2.index) => e1 = e2
      /\ Cardinality(st.log) = st.iters
      /\ \A e \in st.log : e.index >= 0 /\ e.index < st.bound
      /\ st.bound = IF IsReduce(st.kern) THEN num * spatial_dim ELSE count
      /\ Finished(st) => {e.index : e \in st.log} = 0..(st.bound - 1)

\* A finished reduction whose grid had more workers than indices, followed
\* by a finished broadcast over two channels.
C5_Witness ==
  \E k \in 1..Len(stages) : \E j \in 1..Len(stages) :
    /\ IsReduce(stages[k].kern) /\ Finished(stages[k])
    /\ Cardinality(DOMAIN stages[k].idx) > stages[k].bound
    /\ IsBroadcast(stages[j].kern) /\ Finished(stages[j]) /\ channels = 2

\* C6: when the exponentiate stage is about to start, every element of the
\* output buffer is <= 0 and every group has an element equal to 0.
C6_ExpInputNonPositive ==
  \A k \in StageIds("kernel_exp") :
    (CanRun(k) /\ ~Started(stages[k])) =>
      /\ \A i \in 1..count : IsNum(mem[TopData][i]) /\ mem[TopData][i][2] <= 0
      /\ \A n \in 0..(num - 1) : \A sx \in 0..(spatial_dim - 1) :
           \E c \in 0..(channels - 1) : Elem(mem[TopData], n, c, sx) = Num(0)

RECURSIVE Terms(_)
\* The summands of a sum.
Terms(v) == IF v[1] = "add" THEN Terms(v[2]) \cup Terms(v[3]) ELSE {v}
\* A sum of exponentials of values <= 0, one of them exp(0).
PositiveSum(v) ==
  /\ \A t \in Terms(v) : t[1] = "exp" /\ IsNum(t[2]) /\ t[2][2] <= 0
  /\ \E t \in Terms(v) : t[1] = "exp" /\ IsNum(t[2]) /\ t[2][2] = 0

\* C7: every scratch element the divide stage reads is strictly positive: a
\* sum of exponentials of values <= 0 of which one is exp(0).
C7_DivisorPositive ==
  \A k \in StageIds("kernel_channel_div") :
    (CanRun(k) /\ ~Finished(stages[k])) =>
      \A g \in 1..groups : PositiveSum(mem[ScaleData][g])

\* C8: the accumulator of the channel max starts at the most negative finite
\* value of the element type, and the finished stage has written the channel
\* maximum of every group.
C8_MaxIsGroupMax ==
  \A k \in StageIds("kernel_channel_max") :
    (Finished(stages[k]) /\ \A j \in StageIds("kernel_channel_sum") : ~Started(stages[j])) =>
      /\ MaxInit(dtype) = Num(-(CHOOSE m \in DtypeVals(dtype) :
                                  \A v \in DtypeVals(dtype) : v <= m))
      /\ \A n \in 0..(num - 1) : \A sx \in 0..(spatial_dim - 1) :
           mem[ScaleData][n * spatial_dim + sx + 1] = Num(GroupMax(n, sx))

\* What a launch passes to the device: the kernel, its index space, its
\* shape arguments and its buffers.
LaunchArgs(r) == <<r.kern, r.bound, r.n, r.ch, r.sp, r.src, r.src2, r.dst>>

RECURSIVE RunStage(_, _, _)
\* A stage run by one worker over its index space, in index order.
RunStage(m, op, i) ==
  IF i >= op.bound THEN m
  ELSE RunStage(Wr(m, op.dst, i, KernelValue(m, op, i)), op, i + 1)
RECURSIVE RunProgram(_, _, _)
\* A program run stage after stage from stage k on.
RunProgram(m, prog, k) ==
  IF k > Len(prog) THEN m ELSE RunProgram(RunStage(m, prog[k], 0), prog, k + 1)

\* The forward branch the call did not take.
OtherBranch == IF backend = "CUDA" THEN GreenteaForward ELSE CudaForward

\* C9: the stages a Forward_gpu call issues are, launch by launch, those of
\* the other backend's branch (same kernels, arguments and buffers), and the
\* completed call leaves the output and the scratch buffer as a run of the
\* other branch's stages from the same input leaves them.
C9_BranchesAgree ==
  call = "forward" =>
    /\ Len(stages) <= Len(OtherBranch)
    /\ \A k \in 1..Len(stages) : LaunchArgs(stages[k]) = LaunchArgs(OtherBranch[k])
    /\ Quiescent =>
         LET ref == RunProgram(ForwardMem0, OtherBranch, 1) IN
           /\ mem[TopData] = ref[TopData]
           /\ mem[ScaleData] = ref[ScaleData]

\* A completed GREENTEA forward call over two groups of two channels.
C9_Witness ==
  /\ call = "forward" /\ backend = "GREENTEA" /\ Quiescent
  /\ channels = 2 /\ spatial_dim = 2
  /\ \A i \in 1..count : mem[TopData][i][1] = "div"

\* The group of element i under the layout (n * channels + c) * spatial_dim + s.
GroupOf(i) == (i \div (channels * spatial_dim)) * spatial_dim + (i % spatial_dim)

\* C10: a broadcast iteration for index i reads the one scalar at
\* n * spatial_dim + s with n = i / (channels * spatial_dim), s = i % spatial_dim,
\* which lies in [0, num * spatial_dim) and is the group of the element at
\* (n, c, s) whose linear index is i; every data index a reduction iteration
\* reads lies in [0, count).
C10_IndexDecomposition ==
  \A k \in 1..Len(stages) : \A e \in stages[k].log :
    /\ IsBroadcast(stages[k].kern) =>
         /\ e.reads = {GroupOf(e.index)}
         /\ \A g \in e.reads : g >= 0 /\ g < num * spatial_dim
         /\ \E x \in Triples :
              /\ DataIdx(x[1], x[2], x[3], channels, spatial_dim) = e.index
              /\ e.reads = {x[1] * spatial_dim + x[3]}
    /\ IsReduce(stages[k].kern) => \A d \in e.reads : d >= 0 /\ d < count

\* A broadcast iteration for the last element of a tensor with two batch
\* items, two channels and two spatial positions has run.
C10_Witness ==
  \E k \in 1..Len(stages) : \E e \in stages[k].log :
    /\ IsBroadcast(stages[k].kern) /\ e.index = count - 1
    /\ num = 2 /\ channels = 2 /\ spatial_dim = 2

====
